---- MODULE Spec2Model ----
(* Model of vibe_workflow.py: one process invocation (main) constructs a     *)
(* VibeWorkflow (reads two input files, ensures the output directory) and    *)
(* runs it (architecture.md, tasks.md, agents.md).  Texts are sequences of   *)
(* tokens: a user character is a one-character token, a literal of the       *)
(* source is one token (a code fence is written [fence]).                    *)
EXTENDS Integers, Sequences, FiniteSets, TLC

\* ---------------------------------------------------------------- bounds
MaxLen == 2
MaxRuns == 2

Alphabet == {" ", "a"}
Whitespace == {" "}

RECURSIVE SeqsUpTo(_)
SeqsUpTo(n) ==
    IF n = 0 THEN {<<>>}
    ELSE LET S == SeqsUpTo(n - 1)
         IN  S \cup {Append(s, c) : s \in {t \in S : Len(t) = n - 1}, c \in Alphabet}

RawTexts == SeqsUpTo(MaxLen)

\* ---------------------------------------------------------------- files
NoFile == [exists |-> FALSE, text |-> <<>>]
File(t) == [exists |-> TRUE, text |-> t]

ArtifactNames == {"architecture.md", "tasks.md", "agents.md"}

Cwd == <<>>
ScriptDirs == {Cwd, <<"vibe">>}
OutputDirs == {Cwd, <<"out", "docs">>}
FileDirs == ScriptDirs \cup OutputDirs
DirPaths == FileDirs \cup {<<"out">>}

Prefixes(p) == {SubSeq(p, 1, k) : k \in 0..Len(p)}

StaleText == <<"stale text">>
TemplateText == <<"# agents.md template of the repository">>

\* ---------------------------------------------------------------- state
VARIABLES
    product_file,        \* the file at args.product_file
    tools_file,          \* the file at args.tools_file
    credential,          \* TRUE iff OPENAI_API_KEY is set in the environment
    use_llm,             \* args.use_llm
    client,              \* which body call_llm has: the source's, or an echo
    output_dir,          \* args.output
    script_dir,          \* Path(__file__).parent
    dirs,                \* paths that exist as directories
    nondirs,             \* paths that exist as regular files
    files,               \* [<<dir, name>> -> file] for the artifact names
    pc,                  \* position of main
    product_description, \* self.product_description
    tools_list,          \* self.tools_list
    architecture,        \* local of run
    tasks,               \* local of run
    tasks_prompt,        \* local of run
    exit_code,           \* process status, -1 while running
    error,               \* the exception main reported
    log,                 \* effects of the current run, in order
    wrote,               \* [name -> file] as written by the current run
    files0,              \* files when the current run started
    dirs0,               \* dirs when the current run started
    prev,                \* outcome of the last successful run
    runs                 \* number of invocations so far

vars == <<product_file, tools_file, credential, use_llm, client, output_dir,
          script_dir, dirs, nondirs, files, pc, product_description,
          tools_list, architecture, tasks, tasks_prompt, exit_code, error,
          log, wrote, files0, dirs0, prev, runs>>

env == <<product_file, tools_file, credential, output_dir, script_dir, nondirs>>

\* ---------------------------------------------------------------- pure
RECURSIVE LStrip(_)
LStrip(s) == IF s # <<>> /\ Head(s) \in Whitespace THEN LStrip(Tail(s)) ELSE s

RECURSIVE RStrip(_)
RStrip(s) ==
    IF s # <<>> /\ s[Len(s)] \in Whitespace
    THEN RStrip(SubSeq(s, 1, Len(s) - 1)) ELSE s

Strip(s) == RStrip(LStrip(s))

generate_architecture_prompt(product, tools) ==
    <<"I'm building a ">> \o product \o <<". Use ">> \o tools
    \o <<". Give me the full architecture: [...] Do not use icons or emoticons.">>

generate_tasks_prompt(arch) ==
    <<"Using this architecture:\n\n">> \o arch
    \o <<"\n\nWrite a granular step-by-step plan to build the MVP. [...]">>

\* the placeholder document without the prompt it should embed
PlaceholderArchitectureNoPrompt(product, tools, arch_prompt) ==
    <<"# Architecture\n\n## Product Description\n">> \o product
    \o <<"\n\n## Tools\n">> \o tools
    \o <<"\n\n[LLM will generate architecture here based on the prompt below]">>

PlaceholderArchitecture(product, tools, arch_prompt) ==
    <<"# Architecture\n\n## Product Description\n">> \o product
    \o <<"\n\n## Tools\n">> \o tools
    \o <<"\n\n[LLM will generate architecture here based on the prompt below]\n\n---\n**Prompt for LLM:**\n[fence]\n">>
    \o arch_prompt \o <<"\n[fence]">>

PlaceholderTasks(prompt) ==
    <<"# Tasks\n\n[LLM will generate tasks based on architecture.md]\n\n---\n**Prompt for LLM:**\n[fence]\n">>
    \o prompt \o <<"\n[fence]">>

FallbackAgents == <<"# AGENTS.md - Coding Agent Guidelines [...]">>

PlaceholderResponse == <<"[LLM Response would go here for: gpt-4]">>

EchoClient(prompt) == prompt

call_llm(prompt) ==
    IF client = "echo" THEN EchoClient(prompt) ELSE PlaceholderResponse

\* Path(__file__).parent / "agents.md"
agents_path == <<script_dir, "agents.md">>

\* the template read without the exists() test and its fallback
get_existing_agents_md_no_fallback == files[agents_path].text

get_existing_agents_md ==
    IF files[agents_path].exists THEN files[agents_path].text ELSE FallbackAgents

OutPath(name) == <<output_dir, name>>

\* ---------------------------------------------------------------- main
\* a handler that removes what the run wrote before it exits
RaiseWithRollback(e) ==
    /\ pc' = "exited"
    /\ exit_code' = 1
    /\ error' = e
    /\ files' = [k \in DOMAIN files |-> IF k[1] = output_dir THEN NoFile ELSE files[k]]
    /\ UNCHANGED <<dirs, wrote>>

\* main: except Exception, report on stderr, sys.exit(1); nothing is cleaned up
Raise(e) ==
    /\ pc' = "exited"
    /\ exit_code' = 1
    /\ error' = e
    /\ UNCHANGED <<files, dirs, wrote>>

locals == <<product_description, tools_list, architecture, tasks, tasks_prompt>>
hist == <<files0, dirs0, prev, runs>>
args == <<use_llm, client>>

\* _read_file(self.product_file)
LoadProduct ==
    /\ pc = "load_product"
    /\ IF ~product_file.exists
       THEN /\ Raise("FileNotFoundError")
            /\ UNCHANGED <<locals, log>>
       ELSE /\ product_description' = Strip(product_file.text)
            /\ log' = Append(log, "read:product")
            /\ pc' = "load_tools"
            /\ UNCHANGED <<tools_list, architecture, tasks, tasks_prompt,
                           files, dirs, wrote, exit_code, error>>
    /\ UNCHANGED <<env, args, hist>>

\* the tools file read without the exists() test
LoadToolsUnchecked ==
    /\ pc = "load_tools"
    /\ tools_list' = Strip(tools_file.text)
    /\ log' = Append(log, "read:tools")
    /\ pc' = "mkdir"
    /\ UNCHANGED <<product_description, architecture, tasks, tasks_prompt,
                   files, dirs, wrote, exit_code, error>>
    /\ UNCHANGED <<env, args, hist>>

\* _read_file(self.tools_file)
LoadTools ==
    /\ pc = "load_tools"
    /\ IF ~tools_file.exists
       THEN /\ Raise("FileNotFoundError")
            /\ UNCHANGED <<locals, log>>
       ELSE /\ tools_list' = Strip(tools_file.text)
            /\ log' = Append(log, "read:tools")
            /\ pc' = "mkdir"
            /\ UNCHANGED <<product_description, architecture, tasks, tasks_prompt,
                           files, dirs, wrote, exit_code, error>>
    /\ UNCHANGED <<env, args, hist>>

\* Path.mkdir(parents=True, exist_ok=True)
MkdirBlocked(p) == Prefixes(p) \cap nondirs # {}
\* mkdir that creates the leaf only
MkdirResultNoParents(p) == dirs \cup {p}
MkdirResult(p) == dirs \cup Prefixes(p)

\* if self.output_dir != Path("."): self.output_dir.mkdir(...)
EnsureOutputDir ==
    /\ pc = "mkdir"
    /\ IF output_dir # Cwd
       THEN IF MkdirBlocked(output_dir)
            THEN /\ Raise("FileExistsError")
                 /\ UNCHANGED log
            ELSE /\ dirs' = MkdirResult(output_dir)
                 /\ log' = Append(log, "mkdir")
                 /\ pc' = "step1"
                 /\ UNCHANGED <<files, wrote, exit_code, error>>
       ELSE /\ pc' = "step1"
            /\ UNCHANGED <<dirs, log, files, wrote, exit_code, error>>
    /\ UNCHANGED <<env, args, hist, locals>>

\* _save_file opening the file for append
SaveFileAppend(name, content, next) ==
    IF output_dir \in dirs
    THEN /\ files' = [files EXCEPT ![OutPath(name)] = File(@.text \o content)]
         /\ wrote' = [wrote EXCEPT ![name] = File(content)]
         /\ log' = Append(log, "write:" \o name)
         /\ pc' = next
         /\ IF next = "exited"
            THEN exit_code' = 0 /\ UNCHANGED error
            ELSE UNCHANGED <<exit_code, error>>
         /\ UNCHANGED dirs
    ELSE /\ Raise("FileNotFoundError")
         /\ UNCHANGED log

\* _save_file(filename, content), continuing at next on success
SaveFile(name, content, next) ==
    IF output_dir \in dirs
    THEN /\ files' = [files EXCEPT ![OutPath(name)] = File(content)]
         /\ wrote' = [wrote EXCEPT ![name] = File(content)]
         /\ log' = Append(log, "write:" \o name)
         /\ pc' = next
         /\ IF next = "exited"
            THEN exit_code' = 0 /\ UNCHANGED error
            ELSE UNCHANGED <<exit_code, error>>
         /\ UNCHANGED dirs
    ELSE /\ Raise("FileNotFoundError")
         /\ UNCHANGED log

\* Step 1, first half: arch_prompt, then call_llm or the placeholder document
GenerateArchitecture ==
    /\ pc = "step1"
    /\ LET arch_prompt == generate_architecture_prompt(product_description, tools_list)
       IN  IF use_llm
           THEN \E ok \in BOOLEAN :
                  /\ log' = Append(log, "llm:architecture")
                  /\ IF ok
                     THEN /\ architecture' = call_llm(arch_prompt)
                          /\ pc' = "save1"
                          /\ UNCHANGED <<files, dirs, wrote, exit_code, error>>
                     ELSE /\ Raise("CompletionError")
                          /\ UNCHANGED architecture
           ELSE /\ architecture' = PlaceholderArchitecture(product_description,
                                                          tools_list, arch_prompt)
                /\ pc' = "save1"
                /\ UNCHANGED <<log, files, dirs, wrote, exit_code, error>>
    /\ UNCHANGED <<env, args, hist, product_description, tools_list, tasks, tasks_prompt>>

\* Step 1, second half: self._save_file("architecture.md", architecture)
SaveArchitecture ==
    /\ pc = "save1"
    /\ SaveFile("architecture.md", architecture, "step2")
    /\ UNCHANGED <<env, args, hist, locals>>

\* the tasks prompt built from the architecture prompt instead of the result
TasksPromptInputFromPrompt ==
    generate_architecture_prompt(product_description, tools_list)

\* the argument run passes to generate_tasks_prompt
TasksPromptInput == architecture

\* step 2 calling the client a second time when the first call fails
GenerateTasksRetry ==
    /\ pc = "step2"
    /\ tasks_prompt' = generate_tasks_prompt(architecture)
    /\ IF use_llm
       THEN \E ok \in BOOLEAN :
              /\ log' = IF ok THEN Append(log, "llm:tasks")
                        ELSE log \o <<"llm:tasks", "llm:tasks">>
              /\ tasks' = call_llm(tasks_prompt')
              /\ pc' = "save2"
              /\ UNCHANGED <<files, dirs, wrote, exit_code, error>>
       ELSE /\ tasks' = PlaceholderTasks(tasks_prompt')
            /\ pc' = "save2"
            /\ UNCHANGED <<log, files, dirs, wrote, exit_code, error>>
    /\ UNCHANGED <<env, args, hist, product_description, tools_list, architecture>>

\* Step 2, first half: tasks_prompt, then call_llm or the placeholder document
GenerateTasks ==
    /\ pc = "step2"
    /\ tasks_prompt' = generate_tasks_prompt(TasksPromptInput)
    /\ IF use_llm
       THEN \E ok \in BOOLEAN :
              /\ log' = Append(log, "llm:tasks")
              /\ IF ok
                 THEN /\ tasks' = call_llm(tasks_prompt')
                      /\ pc' = "save2"
                      /\ UNCHANGED <<files, dirs, wrote, exit_code, error>>
                 ELSE /\ Raise("CompletionError")
                      /\ UNCHANGED tasks
       ELSE /\ tasks' = PlaceholderTasks(tasks_prompt')
            /\ pc' = "save2"
            /\ UNCHANGED <<log, files, dirs, wrote, exit_code, error>>
    /\ UNCHANGED <<env, args, hist, product_description, tools_list, architecture>>

\* Step 2, second half: self._save_file("tasks.md", tasks)
SaveTasks ==
    /\ pc = "save2"
    /\ SaveFile("tasks.md", tasks, "step3")
    /\ UNCHANGED <<env, args, hist, locals>>

\* Step 3: agents = self.get_existing_agents_md(); self._save_file("agents.md", agents)
CreateAgents ==
    /\ pc = "step3"
    /\ SaveFile("agents.md", get_existing_agents_md, "exited")
    /\ UNCHANGED <<env, args, hist, locals>>

OutFiles == [n \in ArtifactNames |-> files[OutPath(n)]]

\* the next invocation of the program on the same paths
NewRun ==
    /\ pc = "exited"
    /\ runs < MaxRuns
    /\ runs' = runs + 1
    /\ use_llm' \in BOOLEAN
    /\ client' \in {"placeholder", "echo"}
    /\ prev' = IF exit_code = 0
               THEN [ok |-> TRUE, use_llm |-> use_llm, client |-> client,
                     out |-> OutFiles]
               ELSE prev
    /\ pc' = "load_product"
    /\ exit_code' = -1
    /\ error' = "none"
    /\ log' = <<>>
    /\ wrote' = [n \in ArtifactNames |-> NoFile]
    /\ product_description' = <<>>
    /\ tools_list' = <<>>
    /\ architecture' = <<>>
    /\ tasks' = <<>>
    /\ tasks_prompt' = <<>>
    /\ files0' = files
    /\ dirs0' = dirs
    /\ UNCHANGED <<env, files, dirs>>

InputFiles == {NoFile} \cup {File(t) : t \in RawTexts}

\* what lies under out/ before the first run
OutShapes ==
    { [d |-> {}, f |-> {}],
      [d |-> {<<"out">>}, f |-> {}],
      [d |-> {<<"out">>, <<"out", "docs">>}, f |-> {}],
      [d |-> {}, f |-> {<<"out">>}],
      [d |-> {<<"out">>}, f |-> {<<"out", "docs">>}] }

Init ==
    /\ product_file \in InputFiles
    /\ tools_file \in InputFiles
    /\ credential \in BOOLEAN
    /\ use_llm \in BOOLEAN
    /\ client \in {"placeholder", "echo"}
    /\ output_dir \in OutputDirs
    /\ script_dir \in ScriptDirs
    /\ \E s \in OutShapes :
         /\ output_dir = Cwd => s = [d |-> {}, f |-> {}]
         /\ dirs = {Cwd, script_dir} \cup s.d
         /\ nondirs = s.f
    /\ \E stale \in BOOLEAN, tmpl \in BOOLEAN :
         files = [k \in FileDirs \X ArtifactNames |->
                    IF k = <<script_dir, "agents.md">>
                    THEN (IF tmpl THEN File(TemplateText) ELSE NoFile)
                    ELSE IF k[1] = output_dir /\ output_dir \in dirs /\ stale
                    THEN File(StaleText)
                    ELSE NoFile]
    /\ pc = "load_product"
    /\ product_description = <<>>
    /\ tools_list = <<>>
    /\ architecture = <<>>
    /\ tasks = <<>>
    /\ tasks_prompt = <<>>
    /\ exit_code = -1
    /\ error = "none"
    /\ log = <<>>
    /\ wrote = [n \in ArtifactNames |-> NoFile]
    /\ files0 = files
    /\ dirs0 = dirs
    /\ prev = [ok |-> FALSE, use_llm |-> FALSE, client |-> "placeholder",
               out |-> [n \in ArtifactNames |-> NoFile]]
    /\ runs = 1

Next ==
    \/ LoadProduct
    \/ LoadTools
    \/ EnsureOutputDir
    \/ GenerateArchitecture
    \/ SaveArchitecture
    \/ GenerateTasks
    \/ SaveTasks
    \/ CreateAgents
    \/ NewRun

Spec == Init /\ [][Next]_vars

TypeOK ==
    /\ pc \in {"load_product", "load_tools", "mkdir", "step1", "save1",
               "step2", "save2", "step3", "exited"}
    /\ exit_code \in {-1, 0, 1}
    /\ runs \in 1..MaxRuns

\* ---------------------------------------------------------------- helpers
Has(e) == \E i \in DOMAIN log : log[i] = e
Count(e) == Cardinality({i \in DOMAIN log : log[i] = e})
Before(e1, e2) == \E i, j \in DOMAIN log : i < j /\ log[i] = e1 /\ log[j] = e2
IsLlm(e) == e \in {"llm:architecture", "llm:tasks"}
IsWrite(e) == e \in {"write:architecture.md", "write:tasks.md", "write:agents.md"}
IsStep(e) == e \in {"read:product", "read:tools"} \/ IsWrite(e)
Contains(s, sub) ==
    \E i \in 1..(Len(s) - Len(sub) + 1) : SubSeq(s, i, i + Len(sub) - 1) = sub
IsPrefixOf(s, t) == Len(s) <= Len(t) /\ s = SubSeq(t, 1, Len(s))

StepOrder == <<"read:product", "read:tools", "write:architecture.md",
               "write:tasks.md", "write:agents.md">>
WriteOrder == <<"write:architecture.md", "write:tasks.md", "write:agents.md">>

Exited == pc = "exited"
Succeeded == pc = "exited" /\ exit_code = 0
Failed == pc = "exited" /\ exit_code = 1
InputMissing == ~product_file.exists \/ ~tools_file.exists
AllWritten == \A n \in ArtifactNames : wrote[n].exists
OutText(n) == files[OutPath(n)].text

LoadedProduct == Strip(product_file.text)
LoadedTools == Strip(tools_file.text)
ArchPromptOfInputs == generate_architecture_prompt(LoadedProduct, LoadedTools)

\* C1: the steps of a run happen in the order load product, load tools, write
\* architecture.md, write tasks.md, write agents.md; after a failure no later
\* step happens in that run, and every artifact the run wrote still holds the
\* content it was written with.
C1_StepsInOrderNoRollback ==
    /\ [](/\ IsPrefixOf(SelectSeq(log, IsStep), StepOrder)
          /\ \A n \in ArtifactNames :
               /\ wrote[n].exists <=> Has("write:" \o n)
               /\ wrote[n].exists => files[OutPath(n)] = wrote[n]
          /\ exit_code = 1 => pc = "exited" /\ ~Has("write:agents.md"))
    /\ [][(exit_code = 1 /\ runs' = runs)
            => (log' = log /\ files' = files /\ dirs' = dirs)]_vars

C1_Witness == Failed /\ wrote["architecture.md"].exists /\ ~wrote["tasks.md"].exists

\* C2: when the product file, or only the tools file, does not exist, the run
\* fails with a not-found error: no completion call, no directory creation and
\* no artifact write happens in that run.
C2_MissingInputNoEffects ==
    InputMissing =>
        /\ pc \in {"load_product", "load_tools", "exited"}
        /\ \A i \in DOMAIN log : ~IsLlm(log[i]) /\ ~IsWrite(log[i]) /\ log[i] # "mkdir"
        /\ dirs = dirs0
        /\ files = files0
        /\ \A n \in ArtifactNames : ~wrote[n].exists
        /\ Exited => exit_code = 1 /\ error = "FileNotFoundError"

C2_Witness ==
    /\ Failed /\ product_file.exists /\ ~tools_file.exists
    /\ use_llm /\ output_dir # Cwd /\ output_dir \notin dirs

\* C3: without the credential the run aborts before any file is read or
\* written: no read, no directory creation, no write, and it ends with status 1.
C3_NoCredentialAbortsBeforeIO ==
    ~credential =>
        /\ log = <<>>
        /\ files = files0
        /\ dirs = dirs0
        /\ Exited => exit_code = 1

\* C4 as stated: with an echoing completion client a full run leaves
\* architecture.md equal to the architecture prompt and tasks.md equal to the
\* tasks prompt of that text; the tasks prompt is always built from the content
\* persisted as architecture.md, and the tasks completion is never requested
\* before architecture.md is written.
TasksPromptFromPersisted ==
    /\ tasks_prompt # <<>> =>
         /\ wrote["architecture.md"].exists
         /\ files[OutPath("architecture.md")] = wrote["architecture.md"]
         /\ tasks_prompt = generate_tasks_prompt(wrote["architecture.md"].text)
    /\ Has("llm:tasks") => Before("write:architecture.md", "llm:tasks")

EchoArtifacts ==
    /\ OutText("architecture.md") = ArchPromptOfInputs
    /\ OutText("tasks.md") = generate_tasks_prompt(ArchPromptOfInputs)

C4_EchoRunAsStated ==
    /\ (client = "echo" /\ Succeeded) => EchoArtifacts
    /\ TasksPromptFromPersisted

\* C4 amended: the echo equalities hold for a full run made with use_llm set;
\* the tasks prompt is always built from the content persisted as
\* architecture.md, and the tasks completion is never requested before
\* architecture.md is written.
C4_EchoRunWithUseLlm ==
    /\ (client = "echo" /\ use_llm /\ Succeeded) => EchoArtifacts
    /\ TasksPromptFromPersisted

C4_Witness ==
    /\ client = "echo" /\ use_llm /\ Succeeded
    /\ LoadedProduct # <<>> /\ product_file.text # LoadedProduct

\* C5: the process exits 0 exactly when every artifact was written, and exits
\* 1 on a missing input file, a missing credential or a completion error.
C5_ExitStatus ==
    Exited =>
        /\ exit_code = 0 <=> AllWritten
        /\ exit_code \in {0, 1}
        /\ (InputMissing \/ ~credential \/ error = "CompletionError") => exit_code = 1

\* C6: an error of a completion call is fatal and never retried: each
\* completion step calls the client at most once per run, architecture before
\* tasks, and after a failed call the run makes no further call or write and
\* ends with a non-zero status.
C6_CompletionErrorsFatal ==
    /\ Count("llm:architecture") <= 1
    /\ Count("llm:tasks") <= 1
    /\ Has("llm:tasks") => Before("llm:architecture", "llm:tasks")
    /\ error = "CompletionError" =>
         /\ pc = "exited" /\ exit_code # 0
         /\ log # <<>> /\ IsLlm(log[Len(log)])
         /\ ~wrote[IF log[Len(log)] = "llm:architecture"
                   THEN "architecture.md" ELSE "tasks.md"].exists
         /\ ~wrote["agents.md"].exists

C6_Witness ==
    /\ error = "CompletionError" /\ Has("llm:tasks")
    /\ wrote["architecture.md"].exists

\* what a run with these inputs leaves when the artifacts were absent before
CleanArchitecture ==
    IF use_llm THEN call_llm(ArchPromptOfInputs)
    ELSE PlaceholderArchitecture(LoadedProduct, LoadedTools, ArchPromptOfInputs)

CleanTasks ==
    IF use_llm THEN call_llm(generate_tasks_prompt(CleanArchitecture))
    ELSE PlaceholderTasks(generate_tasks_prompt(CleanArchitecture))

CleanAgents ==
    IF output_dir # script_dir /\ files0[agents_path].exists
    THEN files0[agents_path].text ELSE FallbackAgents

SameAsPreviousRun ==
    (prev.ok /\ prev.use_llm = use_llm /\ prev.client = client) => OutFiles = prev.out

\* C7 as stated: after a successful run each of architecture.md, tasks.md and
\* agents.md holds exactly what the run wrote, independent of what the file
\* held before; a second successful run with the same inputs changes nothing.
C7_OverwriteAsStated ==
    Succeeded =>
        /\ \A n \in ArtifactNames : files[OutPath(n)] = wrote[n] /\ wrote[n].exists
        /\ OutText("architecture.md") = CleanArchitecture
        /\ OutText("tasks.md") = CleanTasks
        /\ OutText("agents.md") = CleanAgents
        /\ SameAsPreviousRun

\* C7 amended: as stated for architecture.md and tasks.md, and for agents.md
\* when the output directory is not the directory of the script; when it is,
\* agents.md is the template itself and is rewritten with its own content.
C7_OverwriteExceptTemplate ==
    Succeeded =>
        /\ \A n \in ArtifactNames : files[OutPath(n)] = wrote[n] /\ wrote[n].exists
        /\ OutText("architecture.md") = CleanArchitecture
        /\ OutText("tasks.md") = CleanTasks
        /\ output_dir # script_dir => OutText("agents.md") = CleanAgents
        /\ (output_dir = script_dir /\ files0[agents_path].exists)
              => files[OutPath("agents.md")] = files0[OutPath("agents.md")]
        /\ (output_dir = script_dir /\ ~files0[agents_path].exists)
              => OutText("agents.md") = FallbackAgents
        /\ SameAsPreviousRun

C7_Witness ==
    /\ Succeeded
    /\ files0[OutPath("architecture.md")].exists
    /\ files0[OutPath("architecture.md")].text # OutText("architecture.md")

C9_OutputDirExistsBeforeWrite ==
    /\ (pc \in {"step1", "save1", "step2", "save2", "step3"}
          \/ \E n \in ArtifactNames : wrote[n].exists)
         => Prefixes(output_dir) \subseteq dirs
    /\ (Has("mkdir") \/ dirs # dirs0) =>
         Before("read:product", "mkdir") /\ Before("read:tools", "mkdir")
    /\ error = "FileNotFoundError" => InputMissing

C9_Witness ==
    /\ wrote["architecture.md"].exists
    /\ output_dir # Cwd /\ <<"out">> \notin dirs0

\* C10: with use_llm false no completion call is made, the three artifacts are
\* written in order, architecture.md is a placeholder document that embeds the
\* architecture prompt and tasks.md embeds the tasks prompt built from that
\* document, not from a completion result.
C10_NoLlmPlaceholders ==
    ~use_llm =>
        /\ \A i \in DOMAIN log : ~IsLlm(log[i])
        /\ IsPrefixOf(SelectSeq(log, IsWrite), WriteOrder)
        /\ (Exited /\ ~InputMissing /\ ~MkdirBlocked(output_dir)) => exit_code = 0
        /\ Succeeded =>
             /\ SelectSeq(log, IsWrite) = WriteOrder
             /\ Contains(OutText("architecture.md"), ArchPromptOfInputs)
             /\ Contains(OutText("architecture.md"), LoadedProduct)
             /\ OutText("architecture.md") \notin {ArchPromptOfInputs, PlaceholderResponse}
             /\ Contains(OutText("tasks.md"),
                         generate_tasks_prompt(OutText("architecture.md")))
             /\ ~Contains(OutText("tasks.md"), PlaceholderResponse)

C10_Witness == ~use_llm /\ Succeeded /\ LoadedTools # <<>>
====
